---- MODULE Spec2Model ----
(***************************************************************************)
(* A model of dice.py: the hash commitment (CommitmentScheme), the fair    *)
(* random generator (FairRandomGenerator) and the round played by Game.    *)
(*                                                                         *)
(* Four specifications:                                                    *)
(*   SpecFn       applies the pure functions (the commitment engine, the   *)
(*                win probability and the help table) to inputs drawn from *)
(*                bounded sets;                                            *)
(*   Spec         is the program as written: main's menu loop and          *)
(*                Game.play;                                               *)
(*   SpecFault    is Spec plus the fault the verification is there to      *)
(*                detect: the committed value is replaced after the digest *)
(*                was published;                                           *)
(*   SpecAnswered is the program with a user who in the end answers every  *)
(*                prompt, for the termination of a round.                  *)
(***************************************************************************)
EXTENDS Integers, Sequences, FiniteSets, TLC

(***************************************************************************)
(* Bounds of the model.                                                    *)
(***************************************************************************)
\* secrets.token_bytes(32): the model draws TokenLen bytes instead of 32.
TokenLen == 1
\* generate_random_value is applied to every range within -RangeMax..RangeMax.
RangeMax == 2
\* The largest value a revealing party may pass to verify_commitment.
OpenMax == 10
\* Number of rounds started from the main menu in one run.
MaxRounds == 2
\* The largest number of dice a help table is built for.
TableMax == 3

\* The byte values the model draws from (a sample of 0..255): 48 is the
\* ASCII digit "0", 171 is no ASCII digit and no sign.
Bytes == {48, 171}

HexChars == <<"0", "1", "2", "3", "4", "5", "6", "7",
              "8", "9", "a", "b", "c", "d", "e", "f">>

VARIABLES
    \* The function harness (SpecFn).
    fn_pc,      \* "idle", "generated", "raised", "verified", "probability"
                \* or "table"
    fn_call,    \* the arguments of the generate_random_value call
    fn_ret,     \* what generate_random_value returned: {} or {a commitment}
    fn_open,    \* the verify_commitment call made on it, with its result
    fn_dice,    \* the dice given to calculate_win_probability (two dice) or
                \* the dice_list of the Game whose help table is built
    fn_prob,    \* {} or {what calculate_win_probability returned}
    fn_table,   \* the rows display_help_table added to the table
    \* The process (Spec, SpecFault).
    pc,              \* the input() call the process waits at, "start" or "exited"
    exit_status,     \* {} or {the status given to sys.exit}
    argv,            \* {} or {sys.argv[1:]}, once main has read it
    dice_list,       \* Game.dice_list (<<>> before the Game is constructed)
    used_dice_index, \* Game.used_dice_index: {} for None, else {index}
    rounds,          \* the number of Game.play calls made
    \* Locals of the running Game.play call and of the turn it is in.
    user_guess,      \* {} or {the guess get_user_guess returned}
    first,           \* "user" or "computer": the branch of play taken, else ""
    exclude,         \* the turn's exclude argument: {} for None, else {index}
    selected,        \* {} or {the index of the turn's selected_dice}
    com,             \* {} or {[value, nonce, key, commitment]} of the pending commitment
    user_roll,       \* {} or {what user_turn returned}
    computer_roll,   \* {} or {what computer_turn returned}
    user_input,      \* {} or {the line last read by get_user_guess or
                     \* get_user_dice_choice, stripped and lowered}
    \* What the process printed.
    last_msg,        \* the reply to the last line read at a prompt
    published,       \* {} or {the digest printed and not yet answered by a reveal}
    revealed,        \* {} or {[value, opens]}: the value the last step revealed, and
                     \* whether the reveal printed with it opens the published digest
    out,             \* the protocol lines printed since the last play call began
    announced        \* {} or {[outcome, user_roll, computer_roll]}: the final result line

fnvars == <<fn_pc, fn_call, fn_ret, fn_open, fn_dice, fn_prob, fn_table>>

procvars == <<pc, exit_status, argv, dice_list, used_dice_index, rounds>>

framevars == <<user_guess, first, exclude, selected, com, user_roll,
               computer_roll, user_input>>

iovars == <<last_msg, published, revealed, out, announced>>

gamevars == <<procvars, framevars, iovars>>

vars == <<fnvars, gamevars>>

(***************************************************************************)
(* Byte strings.                                                           *)
(***************************************************************************)
\* All sequences over S of length exactly n.
SeqsOfLen(S, n) == [1..n -> S]

\* All sequences over S of length at most n.
SeqsUpTo(S, n) == UNION {SeqsOfLen(S, k) : k \in 0..n}

\* secrets.token_bytes(n): any byte string of length n.
token_bytes(n) == SeqsOfLen(Bytes, n)

\* str(n).encode() for n >= 0: the decimal ASCII digits, most significant first.
RECURSIVE DecimalNat(_)
DecimalNat(n) ==
    IF n < 10 THEN <<48 + n>>
    ELSE DecimalNat(n \div 10) \o <<48 + (n % 10)>>

\* str(value).encode(): a minus sign (45) before the digits of a negative value.
StrEncode(value) ==
    IF value < 0 THEN <<45>> \o DecimalNat(-value) ELSE DecimalNat(value)

\* bytes.hex() of a byte string: two hexadecimal characters per byte.
RECURSIVE Hex(_)
Hex(bs) ==
    IF bs = <<>> THEN <<>>
    ELSE <<HexChars[(Head(bs) \div 16) + 1], HexChars[(Head(bs) % 16) + 1]>>
         \o Hex(Tail(bs))

\* hashlib.sha3_256(message).hexdigest(), idealised as collision-free: the
\* digest is a string of hexadecimal characters that determines the message.
sha3_256_hexdigest(message) == Hex(message)

\* A comparison that stops before the last two characters.
compare_digest_truncated(a, b) ==
    /\ Len(a) = Len(b)
    /\ SubSeq(a, 1, Len(a) - 2) = SubSeq(b, 1, Len(b) - 2)

\* hmac.compare_digest(a, b): equality of the two strings.
compare_digest(a, b) == a = b

(***************************************************************************)
(* CommitmentScheme                                                        *)
(***************************************************************************)
\* The message hashed by create_commitment and by verify_commitment.
Message(value, nonce, key) == StrEncode(value) \o nonce \o key

\* A commitment whose digest is taken over value, key, nonce in that order.
create_commitment_swapped(value, nonce, key) ==
    [value |-> value, nonce |-> nonce, key |-> key,
     commitment |-> sha3_256_hexdigest(Message(value, key, nonce))]

\* create_commitment(value) with the nonce and key it drew.
create_commitment(value, nonce, key) ==
    [value |-> value, nonce |-> nonce, key |-> key,
     commitment |-> sha3_256_hexdigest(Message(value, nonce, key))]

verify_commitment(value, nonce, key, commitment) ==
    compare_digest(commitment, sha3_256_hexdigest(Message(value, nonce, key)))

(***************************************************************************)
(* FairRandomGenerator                                                     *)
(***************************************************************************)
\* A generator that can also return its upper bound.
randbelow_inclusive(n) == 0..n

\* secrets.randbelow(n): any integer of 0..n-1 (n > 0).
randbelow(n) == 0..(n - 1)

\* secrets.randbelow(n) raises ValueError when n is not positive.
randbelow_raises(n) == n <= 0

\* The size of the range as if the smaller bound were always the start.
randbelow_argument_swapped(range_start, range_end) ==
    IF range_end < range_start
    THEN range_start - range_end + 1
    ELSE range_end - range_start + 1

\* The argument generate_random_value passes to secrets.randbelow.
randbelow_argument(range_start, range_end) == range_end - range_start + 1

\* The numbers generate_random_value(range_start, range_end) can draw.
RandomNumbers(range_start, range_end) ==
    {r + range_start : r \in randbelow(randbelow_argument(range_start, range_end))}

\* The results generate_random_value(range_start, range_end) can return.
generate_random_value(range_start, range_end) ==
    {create_commitment(number, nonce, key) :
        number \in RandomNumbers(range_start, range_end),
        nonce \in token_bytes(TokenLen),
        key \in token_bytes(TokenLen)}

(***************************************************************************)
(* SpecFn: the commitment engine applied to bounded inputs.                *)
(***************************************************************************)
RangeBounds == (-RangeMax)..RangeMax

\* The values a revealing party may pass to verify_commitment.
OpenValues == (-1)..OpenMax

\* The byte strings a revealing party may pass to verify_commitment: the
\* function takes any bytes, whatever their length.
OpenBytes == SeqsUpTo(Bytes, TokenLen)

\* The strings that differ from s in exactly one position, over alphabet A.
OneChanged(s, A) ==
    {[s EXCEPT ![i] = a] : i \in 1..Len(s), a \in A} \ {s}

HexAlphabet == {HexChars[i] : i \in 1..Len(HexChars)}

InitFn ==
    /\ fn_pc = "idle"
    /\ fn_call = <<>>
    /\ fn_ret = {}
    /\ fn_open = {}
    /\ fn_dice = <<>>
    /\ fn_prob = {}
    /\ fn_table = <<>>

\* A call generate_random_value(range_start, range_end). secrets.randbelow
\* raises ValueError when its argument is not positive.
FnGenerate ==
    /\ fn_pc = "idle"
    /\ \E range_start \in RangeBounds, range_end \in RangeBounds :
         /\ fn_call' = <<range_start, range_end>>
         /\ IF randbelow_raises(randbelow_argument(range_start, range_end))
            THEN /\ fn_pc' = "raised"
                 /\ fn_ret' = {}
            ELSE /\ fn_pc' = "generated"
                 /\ \E c \in generate_random_value(range_start, range_end) :
                      fn_ret' = {c}
    /\ UNCHANGED <<fn_open, fn_dice, fn_prob, fn_table>>
    /\ UNCHANGED gamevars

\* The call verify_commitment(value, nonce, key, commitment), recorded with
\* its result and with what the caller changed ("how").
Verified(how, value, nonce, key, commitment) ==
    /\ fn_pc' = "verified"
    /\ fn_open' = {[how |-> how, value |-> value, nonce |-> nonce, key |-> key,
                    commitment |-> commitment,
                    result |-> verify_commitment(value, nonce, key, commitment)]}
    /\ UNCHANGED <<fn_call, fn_ret, fn_dice, fn_prob, fn_table>>
    /\ UNCHANGED gamevars

\* verify_commitment on exactly what generate_random_value returned.
FnVerify ==
    /\ fn_pc = "generated"
    /\ \E c \in fn_ret :
         Verified("same", c.value, c.nonce, c.key, c.commitment)

\* verify_commitment with one byte of the nonce changed.
FnVerifyNonceChanged ==
    /\ fn_pc = "generated"
    /\ \E c \in fn_ret : \E nonce \in OneChanged(c.nonce, Bytes) :
         Verified("nonce", c.value, nonce, c.key, c.commitment)

\* verify_commitment with one byte of the key changed.
FnVerifyKeyChanged ==
    /\ fn_pc = "generated"
    /\ \E c \in fn_ret : \E key \in OneChanged(c.key, Bytes) :
         Verified("key", c.value, c.nonce, key, c.commitment)

\* verify_commitment with one character of the digest changed.
FnVerifyDigestChanged ==
    /\ fn_pc = "generated"
    /\ \E c \in fn_ret : \E commitment \in OneChanged(c.commitment, HexAlphabet) :
         Verified("digest", c.value, c.nonce, c.key, commitment)

\* verify_commitment on the published digest with any value, nonce and key
\* the revealing party chooses.
FnVerifyReopened ==
    /\ fn_pc = "generated"
    /\ \E c \in fn_ret :
       \E value \in OpenValues, nonce \in OpenBytes, key \in OpenBytes :
         Verified("reopen", value, nonce, key, c.commitment)

(***************************************************************************)
(* Probability: calculate_win_probability and display_help_table.          *)
(***************************************************************************)
\* The dice the probability functions are applied to: the non-transitive
\* triple, a die with six different faces, and two dice of one face.
Die_A == <<2, 2, 4, 4, 9, 9>>
Die_B == <<1, 1, 6, 6, 8, 8>>
Die_C == <<3, 3, 5, 5, 7, 7>>
Die_S == <<1, 2, 3, 4, 5, 6>>
Die_L == <<-1, -1, -1, -1, -1, -1>>
Die_H == <<10, 10, 10, 10, 10, 10>>

FnDice == {Die_A, Die_B, Die_C, Die_S, Die_L, Die_H}

\* The dice lists a Game is constructed with: three dice at least.
FnDiceLists == UNION {SeqsOfLen(FnDice, n) : n \in 3..TableMax}

\* sum(1 for v1 in values1 for v2 in values2 if v1 >= v2): ties counted.
RECURSIVE WinsGe(_, _, _, _)
WinsGe(values1, values2, i, j) ==
    IF i > Len(values1) THEN 0
    ELSE IF j > Len(values2) THEN WinsGe(values1, values2, i + 1, 1)
    ELSE (IF values1[i] >= values2[j] THEN 1 ELSE 0)
         + WinsGe(values1, values2, i, j + 1)

\* sum(1 for v1 in values1 for v2 in values2 if v1 > v2), from the pair
\* (values1[i], values2[j]) on, in the order the generator visits the pairs.
RECURSIVE Wins(_, _, _, _)
Wins(values1, values2, i, j) ==
    IF i > Len(values1) THEN 0
    ELSE IF j > Len(values2) THEN Wins(values1, values2, i + 1, 1)
    ELSE (IF values1[i] > values2[j] THEN 1 ELSE 0)
         + Wins(values1, values2, i, j + 1)

\* The pairs counted for the other die: v1 < v2.
calculate_win_probability_lost(dice1, dice2) ==
    [wins |-> Wins(dice2, dice1, 1, 1), total |-> Len(dice1) * Len(dice2)]

calculate_win_probability_ge(dice1, dice2) ==
    [wins |-> WinsGe(dice1, dice2, 1, 1), total |-> Len(dice1) * Len(dice2)]

\* calculate_win_probability(dice1, dice2): wins / total, kept as the exact
\* fraction (the float returned is the double nearest to it).
calculate_win_probability(dice1, dice2) ==
    [wins |-> Wins(dice1, dice2, 1, 1), total |-> Len(dice1) * Len(dice2)]

\* f"{p:.4f}": the fraction rounded to four decimals, in ten-thousandths.
\* No fraction over 36 lies halfway between two such values.
Format4(p) == (2 * 10000 * p.wins + p.total) \div (2 * p.total)

\* user_dice == opponent_dice: Dice defines no __eq__, so two Dice objects are
\* equal when they are the same object. parse_dice_configurations constructs
\* one object per argument, so the dice at i and j are equal when i = j.
DiceEqual(list, i, j) == i = j

\* The cell of row i, column j: "- (0.3333)" (dash, 3333) or the formatted
\* probability.
HelpCell(list, i, j) ==
    IF DiceEqual(list, i, j)
    THEN [dash |-> TRUE, shown |-> 3333]
    ELSE [dash |-> FALSE,
          shown |-> Format4(calculate_win_probability(list[i], list[j]))]

\* display_help_table: one row per die, one cell per opponent die.
display_help_table(list) ==
    [i \in 1..Len(list) |-> [j \in 1..Len(list) |-> HelpCell(list, i, j)]]

\* A call calculate_win_probability(dice1, dice2).
FnWinProbability ==
    /\ fn_pc = "idle"
    /\ \E dice1 \in FnDice, dice2 \in FnDice :
         /\ fn_dice' = <<dice1, dice2>>
         /\ fn_prob' = {calculate_win_probability(dice1, dice2)}
    /\ fn_pc' = "probability"
    /\ UNCHANGED <<fn_call, fn_ret, fn_open, fn_table>>
    /\ UNCHANGED gamevars

\* A call display_help_table() on a Game constructed with a dice list.
FnHelpTable ==
    /\ fn_pc = "idle"
    /\ \E list \in FnDiceLists :
         /\ fn_dice' = list
         /\ fn_table' = display_help_table(list)
    /\ fn_pc' = "table"
    /\ UNCHANGED <<fn_call, fn_ret, fn_open, fn_prob>>
    /\ UNCHANGED gamevars

NextFn ==
    \/ FnGenerate
    \/ FnVerify
    \/ FnVerifyNonceChanged
    \/ FnVerifyKeyChanged
    \/ FnVerifyDigestChanged
    \/ FnVerifyReopened
    \/ FnWinProbability
    \/ FnHelpTable


(***************************************************************************)
(* Text input: a line is a sequence of one-character strings.              *)
(***************************************************************************)
Digits == <<"0", "1", "2", "3", "4", "5", "6", "7", "8", "9">>

IsDigit(ch) == \E i \in 1..Len(Digits) : Digits[i] = ch

DigitValue(ch) == (CHOOSE i \in 1..Len(Digits) : Digits[i] = ch) - 1

\* str.strip(): the line without its leading and trailing blanks.
RECURSIVE StripLeft(_)
StripLeft(s) ==
    IF s # <<>> /\ Head(s) = " " THEN StripLeft(Tail(s)) ELSE s

RECURSIVE StripRight(_)
StripRight(s) ==
    IF s # <<>> /\ s[Len(s)] = " " THEN StripRight(SubSeq(s, 1, Len(s) - 1)) ELSE s

Strip(s) == StripRight(StripLeft(s))

\* str.lower(), over the letters the model's lines use.
Lower(s) == [i \in 1..Len(s) |-> IF s[i] = "X" THEN "x" ELSE s[i]]

\* The value of a non-empty string of decimal digits.
RECURSIVE DigitsValue(_)
DigitsValue(s) ==
    IF s = <<>> THEN 0
    ELSE 10 * DigitsValue(SubSeq(s, 1, Len(s) - 1)) + DigitValue(s[Len(s)])

AllDigits(s) == s # <<>> /\ \A i \in 1..Len(s) : IsDigit(s[i])

\* int(text): {n} when text, blanks stripped, is an optional sign followed by
\* decimal digits, and {} when int raises ValueError.
int(text) ==
    LET s == Strip(text) IN
    IF s # <<>> /\ Head(s) = "-"
    THEN IF AllDigits(Tail(s)) THEN {-DigitsValue(Tail(s))} ELSE {}
    ELSE IF s # <<>> /\ Head(s) = "+"
    THEN IF AllDigits(Tail(s)) THEN {DigitsValue(Tail(s))} ELSE {}
    ELSE IF AllDigits(s) THEN {DigitsValue(s)} ELSE {}

\* str.split(","): the fields between the commas (one field when there is none).
RECURSIVE Split(_)
Split(s) ==
    IF \A i \in 1..Len(s) : s[i] # ","
    THEN <<s>>
    ELSE LET i == CHOOSE k \in 1..Len(s) :
                      s[k] = "," /\ \A j \in 1..(k - 1) : s[j] # ","
         IN <<SubSeq(s, 1, i - 1)>> \o Split(SubSeq(s, i + 1, Len(s)))

(***************************************************************************)
(* Dice and parse_dice_configurations                                      *)
(***************************************************************************)
\* A constructor that takes any number of values.
DiceAcceptsAny(values) == TRUE

\* Dice(values) is constructed (len(values) == 6); values are integers here,
\* since they come from int().
DiceAccepts(values) == Len(values) = 6

\* One argument parsed: {the die} or {} when int() or Dice() raises ValueError.
ParseDie(arg) ==
    LET fields == Split(arg) IN
    IF \E i \in 1..Len(fields) : int(fields[i]) = {}
    THEN {}
    ELSE LET values == [i \in 1..Len(fields) |->
                            CHOOSE n \in int(fields[i]) : TRUE]
         IN IF DiceAccepts(values) THEN {values} ELSE {}

\* parse_dice_configurations(args): {dice_list}, or {} when it raises ValueError.
parse_dice_configurations(args) ==
    IF Len(args) < 3 THEN {}
    ELSE IF \E i \in 1..Len(args) : ParseDie(args[i]) = {}
    THEN {}
    ELSE {[i \in 1..Len(args) |-> CHOOSE d \in ParseDie(args[i]) : TRUE]}

(***************************************************************************)
(* The process: main and Game.play                                         *)
(***************************************************************************)
\* The command lines the model starts the process with (sys.argv[1:]).
Arg_A == <<"2", ",", "2", ",", "4", ",", "4", ",", "9", ",", "9">>
Arg_B == <<"6", ",", "8", ",", "1", ",", "1", ",", "8", ",", "6">>
Arg_C == <<"7", ",", "5", ",", "3", ",", "7", ",", "5", ",", "3">>
Arg_N == <<"-", "1", ",", "0", ",", " ", "4", ",", "+", "4", ",", "9", ",", "1", "0">>
Arg_Short == <<"1", ",", "2", ",", "3", ",", "4", ",", "5">>
Arg_Long == <<"1", ",", "2", ",", "3", ",", "4", ",", "5", ",", "6", ",", "7">>
Arg_NotInt == <<"1", ",", "2", ",", "q", ",", "4", ",", "5", ",", "6">>
Arg_Empty == <<"1", ",", "2", ",", ",", "4", ",", "5", ",", "6">>

ArgLists ==
    { <<Arg_A, Arg_B, Arg_C>>,
      <<Arg_A, Arg_N, Arg_A, Arg_B>>,
      <<>>,
      <<Arg_A, Arg_B>>,
      <<Arg_A, Arg_B, Arg_Short>>,
      <<Arg_Long, Arg_B, Arg_C>>,
      <<Arg_A, Arg_NotInt, Arg_C>>,
      <<Arg_A, Arg_B, Arg_Empty>> }

\* The lines the user may type at a prompt.
Lines ==
    { <<"0">>, <<"1">>, <<"2">>, <<"3">>, <<"4">>, <<"?">>, <<"x">>, <<"X">>,
      <<" ", "1">>, <<"+", "2">>, <<"q">>, <<>> }

\* input(...).strip().lower()
ReadLine(line) == Lower(Strip(line))

InitGame ==
    /\ pc = "start"
    /\ exit_status = {}
    /\ argv = {}
    /\ dice_list = <<>>
    /\ used_dice_index = {}
    /\ rounds = 0
    /\ user_guess = {}
    /\ first = ""
    /\ exclude = {}
    /\ selected = {}
    /\ com = {}
    /\ user_roll = {}
    /\ computer_roll = {}
    /\ user_input = {}
    /\ last_msg = ""
    /\ published = {}
    /\ revealed = {}
    /\ out = <<>>
    /\ announced = {}

Init == InitFn /\ InitGame

SpecFn == Init /\ [][NextFn]_vars

\* sys.exit(status)
Exit(status) ==
    /\ pc' = "exited"
    /\ exit_status' = {status}

\* The locals of play and of its turns, gone when play returns.
FrameCleared ==
    /\ user_guess' = {}
    /\ first' = ""
    /\ exclude' = {}
    /\ selected' = {}
    /\ com' = {}
    /\ user_roll' = {}
    /\ computer_roll' = {}
    /\ user_input' = {}

\* main, up to the first prompt of the menu loop: fewer than 3 arguments, or a
\* ValueError of parse_dice_configurations, end the process with status 1.
Startup ==
    /\ pc = "start"
    /\ \E args \in ArgLists :
         /\ argv' = {args}
         /\ IF Len(args) + 1 < 4
            THEN /\ Exit(1)
                 /\ last_msg' = "Error: You must provide at least 3 dice configurations."
                 /\ UNCHANGED dice_list
            ELSE IF parse_dice_configurations(args) = {}
            THEN /\ Exit(1)
                 /\ last_msg' = "An error occurred"
                 /\ UNCHANGED dice_list
            ELSE /\ \E d \in parse_dice_configurations(args) : dice_list' = d
                 /\ pc' = "menu"
                 /\ last_msg' = ""
                 /\ UNCHANGED exit_status
    /\ UNCHANGED <<used_dice_index, rounds, framevars, published, revealed,
                   out, announced>>
    /\ UNCHANGED fnvars

\* A line the prompt answers with a message and asks again: the process stays
\* at the same input() call.
Reprompt(line, msg) ==
    /\ user_input' = {line}
    /\ last_msg' = msg
    /\ revealed' = {}
    /\ UNCHANGED <<procvars, user_guess, first, exclude, selected, com,
                   user_roll, computer_roll, published, out, announced>>
    /\ UNCHANGED fnvars

\* The line "x" at a prompt: "Thanks for playing!" and sys.exit(0).
ExitAtPrompt(line) ==
    /\ Exit(0)
    /\ user_input' = {line}
    /\ last_msg' = "Thanks for playing!"
    /\ revealed' = {}
    /\ UNCHANGED <<argv, dice_list, used_dice_index, rounds, user_guess, first, exclude,
                   selected, com, user_roll, computer_roll, published, out,
                   announced>>
    /\ UNCHANGED fnvars

\* A reveal that prints another value than the one held since the commitment.
RevealOther(c) == [value |-> c.value + 1, nonce |-> c.nonce, key |-> c.key]

\* The reveal printed after the prompt: the value, the nonce and the key.
Reveal(c) == [value |-> c.value, nonce |-> c.nonce, key |-> c.key]

\* What the user sees of a reveal: the value, and whether the printed
\* (value, nonce, key) open the digest that was printed before it.
Shown(c) ==
    [value |-> Reveal(c).value,
     opens |-> \E d \in published :
                  verify_commitment(Reveal(c).value, Reveal(c).nonce,
                                    Reveal(c).key, d)]

\* A check that never fails.
VerifiesAlways(c) == TRUE

\* The check made on a reveal: verify_commitment on the turn's own locals.
Verifies(c) == verify_commitment(c.value, c.nonce, c.key, c.commitment)

\* The branches of play exchanged.
UserMovesFirstInverted(guess, first_player) == guess # first_player

\* play: the user moves first when the guess equals the committed value.
UserMovesFirst(guess, first_player) == guess = first_player

\* A first turn that is refused the die claimed last.
FirstTurnExcludeLastClaimed == used_dice_index

\* play calls the first turn without an argument: exclude is None.
FirstTurnExclude == {}

\* computer_turn: the indices the computer draws its die from.
available_indices(excl) ==
    {i \in 0..(Len(dice_list) - 1) : i \notin excl}

\* A prompt that never refuses the die the other party holds.
ChoiceNeverExcluded(choice, excl) == FALSE

\* get_user_dice_choice: the choice is the die the other party holds.
ChoiceIsExcluded(choice, excl) == excl # {} /\ choice \in excl

\* A prompt that takes no index.
ChoiceInRangeNever(choice) == FALSE

\* get_user_dice_choice: the choice is an index of dice_list.
ChoiceInRange(choice) == 0 <= choice /\ choice < Len(dice_list)

\* The face under the roll counted from the last face back.
FaceFromEnd(dice_index, roll) == dice_list[dice_index + 1][6 - roll]

\* selected_dice.values[roll]
Face(dice_index, roll) == dice_list[dice_index + 1][roll + 1]

\* The value a turn returns: the face under the roll, or -1 when the roll's
\* commitment does not verify.
TurnValue(dice_index, c) ==
    IF Verifies(c) THEN Face(dice_index, c.value) ELSE -1

\* The protocol lines a turn prints after its prompt.
TurnLines(who, c) ==
    <<"reveal_" \o who,
      IF Verifies(c) THEN "throw_" \o who ELSE "warning_" \o who>>

\* A comparison that gives equal faces to the user.
determine_winner_ge(u, c) ==
    IF u >= c THEN "user_wins"
    ELSE IF u < c THEN "computer_wins"
    ELSE "tie"

\* determine_winner(user_roll, computer_roll): the result line printed.
determine_winner(u, c) ==
    IF u > c THEN "user_wins"
    ELSE IF u < c THEN "computer_wins"
    ELSE "tie"

\* user_turn(exclude), up to the prompt of get_user_dice_choice; c is the
\* commitment revealed just before.
BeginUserTurn(excl, c, o) ==
    /\ pc' = "user_choice"
    /\ exclude' = excl
    /\ selected' = {}
    /\ com' = {}
    /\ user_input' = {}
    /\ out' = o
    /\ revealed' = {Shown(c)}
    /\ published' = {}
    /\ UNCHANGED used_dice_index

\* computer_turn(exclude), up to its "Press Enter" prompt (r is the commitment
\* revealed just before): the die is drawn, the roll is committed and the
\* digest is printed.
BeginComputerTurn(excl, r, o) ==
    /\ pc' = "computer_enter"
    /\ exclude' = excl
    /\ user_input' = {}
    /\ \E computer_choice \in available_indices(excl) :
         /\ used_dice_index' = {computer_choice}
         /\ selected' = {computer_choice}
    /\ \E c \in generate_random_value(0, 5) :
         /\ com' = {c}
         /\ published' = {c.commitment}
    /\ revealed' = {Shown(r)}
    /\ out' = o \o <<"choice_computer", "digest_computer">>

\* The end of play after both turns (r is the commitment the second turn
\* revealed): determine_winner prints the result and play returns to the
\* menu loop.
EndPlay(u, c, r, o) ==
    /\ pc' = "menu"
    /\ FrameCleared
    /\ announced' = {[outcome |-> determine_winner(u, c),
                      user_roll |-> u, computer_roll |-> c]}
    /\ out' = o \o <<determine_winner(u, c)>>
    /\ revealed' = {Shown(r)}
    /\ published' = {}
    /\ UNCHANGED used_dice_index

(***************************************************************************)
(* The main menu (main, lines 266-281). The line read here is main's own   *)
(* local; the model keeps the reply to it (last_msg), not the line.        *)
(***************************************************************************)
\* A line the menu answers with a message before it asks again.
MenuReprompt(msg) ==
    /\ last_msg' = msg
    /\ revealed' = {}
    /\ UNCHANGED <<procvars, framevars, published, out, announced>>
    /\ UNCHANGED fnvars

\* "1": game.play() up to the prompt of get_user_guess: the first mover is
\* committed and the digest is printed.
MenuStart ==
    /\ pc = "menu"
    /\ rounds < MaxRounds
    /\ \E line \in Lines : ReadLine(line) = <<"1">>
    /\ rounds' = rounds + 1
    /\ pc' = "guess"
    /\ \E c \in generate_random_value(0, 1) :
         /\ com' = {c}
         /\ published' = {c.commitment}
    /\ out' = <<"digest_first">>
    /\ revealed' = {}
    /\ announced' = {}
    /\ last_msg' = ""
    /\ user_guess' = {}
    /\ first' = ""
    /\ exclude' = {}
    /\ selected' = {}
    /\ user_roll' = {}
    /\ computer_roll' = {}
    /\ user_input' = {}
    /\ UNCHANGED <<exit_status, argv, dice_list, used_dice_index>>
    /\ UNCHANGED fnvars

MenuHelp ==
    /\ pc = "menu"
    /\ \E line \in Lines : ReadLine(line) = <<"2">>
    /\ MenuReprompt("help")

MenuExit ==
    /\ pc = "menu"
    /\ \E line \in Lines : ReadLine(line) = <<"x">>
    /\ Exit(0)
    /\ last_msg' = "Thanks for playing!"
    /\ revealed' = {}
    /\ UNCHANGED <<argv, dice_list, used_dice_index, rounds, framevars, published,
                   out, announced>>
    /\ UNCHANGED fnvars

MenuInvalid ==
    /\ pc = "menu"
    /\ \E line \in Lines : ReadLine(line) \notin {<<"1">>, <<"2">>, <<"x">>}
    /\ MenuReprompt("Invalid selection. Try again.")

(***************************************************************************)
(* get_user_guess and the rest of play up to the next prompt.              *)
(***************************************************************************)
\* "0" or "1": the guess is returned, the first mover is revealed and
\* verified, and the first turn begins.
GuessAccepted ==
    /\ pc = "guess"
    /\ \E line \in Lines, c \in com :
         /\ ReadLine(line) \in {<<"0">>, <<"1">>}
         /\ LET guess == IF ReadLine(line) = <<"0">> THEN 0 ELSE 1
                o == out \o <<"guess", "reveal_first">>
            IN /\ IF ~Verifies(c)
                  THEN /\ pc' = "menu"
                       /\ FrameCleared
                       /\ out' = o \o <<"warning_first">>
                       /\ revealed' = {Shown(c)}
                       /\ published' = {}
                       /\ UNCHANGED used_dice_index
                  ELSE /\ user_guess' = {guess}
                       /\ UNCHANGED <<user_roll, computer_roll>>
                       /\ IF UserMovesFirst(guess, c.value)
                          THEN /\ first' = "user"
                               /\ BeginUserTurn(FirstTurnExclude, c,
                                                o \o <<"first_user">>)
                          ELSE /\ first' = "computer"
                               /\ BeginComputerTurn(FirstTurnExclude, c,
                                                    o \o <<"first_computer">>)
    /\ last_msg' = ""
    /\ UNCHANGED <<exit_status, argv, dice_list, rounds, announced>>
    /\ UNCHANGED fnvars

GuessHelp ==
    /\ pc = "guess"
    /\ \E line \in Lines :
         /\ ReadLine(line) = <<"?">>
         /\ Reprompt(ReadLine(line), "help")

GuessExit ==
    /\ pc = "guess"
    /\ \E line \in Lines :
         /\ ReadLine(line) = <<"x">>
         /\ ExitAtPrompt(ReadLine(line))

GuessInvalid ==
    /\ pc = "guess"
    /\ \E line \in Lines :
         /\ ReadLine(line) \notin {<<"0">>, <<"1">>, <<"?">>, <<"x">>}
         /\ Reprompt(ReadLine(line), "Invalid input. Please try again.")

(***************************************************************************)
(* get_user_dice_choice and the rest of user_turn up to its Enter prompt.  *)
(***************************************************************************)
ChoiceExit ==
    /\ pc = "user_choice"
    /\ \E line \in Lines :
         /\ ReadLine(line) = <<"x">>
         /\ ExitAtPrompt(ReadLine(line))

ChoiceHelp ==
    /\ pc = "user_choice"
    /\ \E line \in Lines :
         /\ ReadLine(line) = <<"?">>
         /\ Reprompt(ReadLine(line), "help")

\* int(user_input) raises ValueError.
ChoiceNotInt ==
    /\ pc = "user_choice"
    /\ \E line \in Lines :
         /\ ReadLine(line) \notin {<<"x">>, <<"?">>}
         /\ int(ReadLine(line)) = {}
         /\ Reprompt(ReadLine(line),
                     "Invalid input. Enter a number or '?' for help or 'x' to exit.")

\* The die the other party holds is asked for.
ChoiceExcluded ==
    /\ pc = "user_choice"
    /\ \E line \in Lines :
         /\ ReadLine(line) \notin {<<"x">>, <<"?">>}
         /\ \E n \in int(ReadLine(line)) :
              /\ ChoiceIsExcluded(n - 1, exclude)
              /\ Reprompt(ReadLine(line),
                          "You cannot select the dice already chosen")

\* A number that is no index of dice_list.
ChoiceOutOfRange ==
    /\ pc = "user_choice"
    /\ \E line \in Lines :
         /\ ReadLine(line) \notin {<<"x">>, <<"?">>}
         /\ \E n \in int(ReadLine(line)) :
              /\ ~ChoiceIsExcluded(n - 1, exclude)
              /\ ~ChoiceInRange(n - 1)
              /\ Reprompt(ReadLine(line), "Invalid choice. Try again.")

\* The choice is returned: the die is claimed, the roll is committed and the
\* digest is printed.
ChoiceAccepted ==
    /\ pc = "user_choice"
    /\ \E line \in Lines :
         /\ ReadLine(line) \notin {<<"x">>, <<"?">>}
         /\ \E n \in int(ReadLine(line)) :
              /\ ~ChoiceIsExcluded(n - 1, exclude)
              /\ ChoiceInRange(n - 1)
              /\ used_dice_index' = {n - 1}
              /\ selected' = {n - 1}
    /\ \E c \in generate_random_value(0, 5) :
         /\ com' = {c}
         /\ published' = {c.commitment}
    /\ revealed' = {}
    /\ pc' = "user_enter"
    /\ out' = out \o <<"choice_user", "digest_user">>
    /\ user_input' = {}
    /\ last_msg' = ""
    /\ UNCHANGED <<exit_status, argv, dice_list, rounds, user_guess, first, exclude,
                   user_roll, computer_roll, announced>>
    /\ UNCHANGED fnvars

(***************************************************************************)
(* The Enter prompts of the two turns and the rest of play.                *)
(***************************************************************************)
\* user_turn after "Press Enter" (the line read is discarded): the roll is
\* revealed and verified and user_turn returns; then play goes on with the
\* computer's turn, or with determine_winner.
UserEnter ==
    /\ pc = "user_enter"
    /\ \E c \in com, dice_index \in selected :
         /\ IF first = "user"
            THEN /\ user_roll' = {TurnValue(dice_index, c)}
                 /\ BeginComputerTurn(used_dice_index, c,
                                    out \o TurnLines("user", c))
                 /\ UNCHANGED <<user_guess, first, computer_roll, announced>>
            ELSE \E computer \in computer_roll :
                    EndPlay(TurnValue(dice_index, c), computer, c,
                            out \o TurnLines("user", c))
    /\ last_msg' = ""
    /\ UNCHANGED <<exit_status, argv, dice_list, rounds>>
    /\ UNCHANGED fnvars

\* computer_turn after "Press Enter": the roll is revealed and verified and
\* computer_turn returns; then play goes on with the user's turn, or with
\* determine_winner.
ComputerEnter ==
    /\ pc = "computer_enter"
    /\ \E c \in com, dice_index \in selected :
         /\ IF first = "computer"
            THEN /\ computer_roll' = {TurnValue(dice_index, c)}
                 /\ BeginUserTurn(used_dice_index, c,
                                out \o TurnLines("computer", c))
                 /\ UNCHANGED <<user_guess, first, user_roll, announced>>
            ELSE \E user \in user_roll :
                    EndPlay(user, TurnValue(dice_index, c), c,
                            out \o TurnLines("computer", c))
    /\ last_msg' = ""
    /\ UNCHANGED <<exit_status, argv, dice_list, rounds>>
    /\ UNCHANGED fnvars

Next ==
    \/ Startup
    \/ MenuStart
    \/ MenuHelp
    \/ MenuExit
    \/ MenuInvalid
    \/ GuessAccepted
    \/ GuessHelp
    \/ GuessExit
    \/ GuessInvalid
    \/ ChoiceExit
    \/ ChoiceHelp
    \/ ChoiceNotInt
    \/ ChoiceExcluded
    \/ ChoiceOutOfRange
    \/ ChoiceAccepted
    \/ UserEnter
    \/ ComputerEnter

Spec == Init /\ [][Next]_vars

(***************************************************************************)
(* The fault the verification is there to detect: while the process waits  *)
(* at a prompt with a commitment pending, the committed value is replaced  *)
(* by another value of its range (the digest, nonce and key are kept).     *)
(***************************************************************************)
ValueReplaced ==
    /\ pc \in {"guess", "user_enter", "computer_enter"}
    /\ \E c \in com :
       \E v \in (IF pc = "guess" THEN 0..1 ELSE 0..5) \ {c.value} :
         com' = {[c EXCEPT !.value = v]}
    /\ revealed' = {}
    /\ UNCHANGED <<procvars, user_guess, first, exclude, selected, user_roll,
                   computer_roll, user_input, last_msg, published, out, announced>>
    /\ UNCHANGED fnvars

NextFault == Next \/ ValueReplaced

SpecFault == Init /\ [][NextFault]_vars

(***************************************************************************)
(* The user who answers. Each prompt of a round is an input() call in a    *)
(* loop that only an accepted line (or "x") leaves: "?" and a refused line *)
(* bring the same prompt again. A user may type such lines any number of   *)
(* times, but in the end types a line that makes the process leave the     *)
(* prompt. The step that leaves a prompt stays possible as long as the     *)
(* process waits there, so weak fairness on it says exactly that.          *)
(***************************************************************************)
\* play is running: the process waits at one of the prompts of a round.
InRound == pc \in {"guess", "user_choice", "user_enter", "computer_enter"}

\* Where the process can be after a prompt of a round: at another prompt, at
\* the menu, or ended.
AfterPrompt ==
    {"menu", "exited", "guess", "user_choice", "user_enter", "computer_enter"}

\* The input() call of a prompt returns a line that ends the prompt's loop.
LeavesPrompt == InRound /\ pc' \in AfterPrompt \ {pc}

UserAnswers == WF_pc(LeavesPrompt)

\* The fault on the first mover's commitment, the one whose detection ends
\* a round.
FirstMoverReplaced == pc = "guess" /\ ValueReplaced

NextAnswered == Next \/ FirstMoverReplaced

SpecAnswered == Init /\ [][NextAnswered]_vars /\ UserAnswers

(***************************************************************************)
(* Claims about the commitment engine (checked under SpecFn).              *)
(***************************************************************************)
\* C1: for every s <= e (s = e included) generate_random_value(s, e) returns
\* a value v with s <= v <= e, and every integer of s..e is a possible result.
C1_ValueWithinRange ==
    (fn_call # <<>> /\ fn_call[1] <= fn_call[2]) =>
        /\ fn_pc # "raised"
        /\ \A c \in fn_ret : fn_call[1] <= c.value /\ c.value <= fn_call[2]
        /\ RandomNumbers(fn_call[1], fn_call[2]) = fn_call[1]..fn_call[2]

\* The degenerate range s = e has returned its single value.
C1_Witness ==
    /\ fn_pc = "generated"
    /\ fn_call[1] = fn_call[2]
    /\ \E c \in fn_ret : c.value = fn_call[1]

\* C2: verify_commitment applied to the (value, nonce, key, digest) that
\* generate_random_value returned is true.
C2_RoundTrip ==
    \A o \in fn_open : o.how = "same" => o.result

\* A returned commitment with different nonce and key has been verified.
C2_Witness ==
    \E o \in fn_open : o.how = "same" /\ o.nonce # o.key /\ o.result

\* C3: with one byte of the nonce, one byte of the key or one character of
\* the digest changed, and the other arguments as returned, verify_commitment
\* is false.
C3_TamperDetected ==
    \A o \in fn_open : o.how \in {"nonce", "key", "digest"} => ~o.result

\* Each of the three alterations has been verified, and rejected.
C3_Witness ==
    \E o \in fn_open : \E c \in fn_ret :
        /\ ~o.result
        /\ o.how = "digest"
        /\ o.commitment # c.commitment
        /\ o.value = c.value /\ o.nonce = c.nonce /\ o.key = c.key

\* C4: no (value', nonce', key') with value' different from the committed
\* value makes verify_commitment true on the published digest.
C4_Binding ==
    \A o \in fn_open : \A c \in fn_ret :
        (o.how = "reopen" /\ o.result) => o.value = c.value

(***************************************************************************)
(* Claims about the round (checked under Spec, C7 and C8 under SpecFault). *)
(***************************************************************************)
\* The positions of a line in the protocol lines printed.
Positions(tag) == {i \in 1..Len(out) : out[i] = tag}

Printed(tag) == Positions(tag) # {}

\* Every tag of `later` is printed after some tag of `earlier`.
PrintedAfter(later, earlier) ==
    \A i \in Positions(later) : \E j \in Positions(earlier) : j < i

Outcomes == {"user_wins", "computer_wins", "tie"}

\* The order of the lines of a round: each digest before its reveal, and the
\* first mover's digest before the guess, the guess before its reveal.
C5_Order ==
    /\ PrintedAfter("guess", "digest_first")
    /\ PrintedAfter("reveal_first", "guess")
    /\ PrintedAfter("reveal_user", "digest_user")
    /\ PrintedAfter("reveal_computer", "digest_computer")

\* C5: in every round the digest of the first mover and of each roll is
\* printed before its value, nonce and key are revealed, the first mover's
\* digest before the guess is accepted; and the value a step reveals is the
\* value held since the digest was printed, whatever the guess: it opens the
\* digest printed before that step.
C5_CommitBeforeReveal ==
    [][ /\ C5_Order'
        /\ revealed' # {} =>
              /\ published # {}
              /\ \E c \in com, r \in revealed' :
                    /\ published = {c.commitment}
                    /\ r.value = c.value
                    /\ r.opens ]_vars

\* A round has ended with its three commitments revealed.
C5_Witness ==
    /\ pc = "menu"
    /\ Printed("reveal_first") /\ Printed("reveal_user") /\ Printed("reveal_computer")
    /\ \E r \in revealed : r.opens

\* During the turn of the party that chooses second, its die is not the die
\* of the party that chose first.
C6_Distinct ==
    (exclude # {} /\ selected # {}) =>
        /\ selected \cap exclude = {}
        /\ used_dice_index = selected

\* C6: the party that chooses second never holds the die of the party that
\* chose first: the second turn is given the first chooser's die as its
\* exclusion; the computer, second, draws another index; the user, second,
\* entering the claimed index gets the refusal and the same prompt again,
\* with the claim unchanged.
C6_MutualExclusion ==
    [][ /\ C6_Distinct'
        /\ (exclude = {} /\ selected # {} /\ exclude' # {}) => exclude' = selected
        /\ (pc = "user_choice" /\ exclude # {}) =>
              \/ pc' = "user_enter" /\ selected' \cap exclude = {}
                                     /\ selected' # {}
              \/ pc' \in {"user_choice", "exited"}
                    /\ used_dice_index' = exclude /\ selected' = {}
        /\ (pc = "user_choice" /\ exclude # {}
              /\ \E line \in user_input' : \E n \in int(line) : n - 1 \in exclude) =>
              /\ pc' = "user_choice"
              /\ last_msg' = "You cannot select the dice already chosen" ]_vars

\* The user, choosing second, has asked for the claimed die and is asked again.
C6_Witness ==
    /\ pc = "user_choice"
    /\ exclude # {}
    /\ last_msg = "You cannot select the dice already chosen"
    /\ \E line \in user_input : \E n \in int(line) : n - 1 \in exclude

\* C7: after a roll commitment fails its verification, no further turn of
\* the round is played and no winner, loser or tie is announced.
C7_RollFailureAbortsRound ==
    \A tag \in {"warning_user", "warning_computer"} :
        Printed(tag) =>
            /\ Positions(tag) = {Len(out)}
            /\ announced = {}

\* C8: when the first mover's reveal does not match its commitment, the step
\* that reads the guess ends the round and not the process: it returns to
\* the main menu, claims no die, commits no roll and announces nothing; and
\* from there a new round can be started.
C8_FirstMoverFailureAbortsRound ==
    [][ /\ (/\ pc = "guess"
             /\ pc' \notin {"guess", "exited"}
             /\ \E c \in com :
                  ~verify_commitment(c.value, c.nonce, c.key, c.commitment)) =>
              /\ pc' = "menu"
              /\ exit_status' = {}
              /\ used_dice_index' = used_dice_index
              /\ com' = {} /\ selected' = {} /\ published' = {}
              /\ announced' = {}
              /\ Len(out') = 4 /\ out'[4] = "warning_first"
        /\ (Printed("warning_first") /\ pc = "menu" /\ rounds < MaxRounds) =>
              ENABLED MenuStart ]_vars

\* A round was aborted on the first mover's commitment, back at the menu.
C8_Witness ==
    /\ pc = "menu"
    /\ out = <<"digest_first", "guess", "reveal_first", "warning_first">>
    /\ announced = {}

\* C9: when the first mover's commitment verifies, the user selects a die
\* first if and only if the guess equals the committed value; otherwise the
\* computer selects first and the user second.
C9_TurnOrder ==
    [][ /\ (pc = "guess" /\ pc' \notin {"guess", "exited"}) =>
              \E c \in com :
                /\ pc' # "menu"
                /\ \E g \in user_guess' :
                     IF g = c.value
                     THEN /\ pc' = "user_choice" /\ first' = "user"
                          /\ exclude' = {} /\ selected' = {}
                     ELSE /\ pc' = "computer_enter" /\ first' = "computer"
                          /\ exclude' = {} /\ selected' # {}
        /\ (Printed("first_user") => PrintedAfter("choice_computer", "choice_user"))'
        /\ (Printed("first_computer") => PrintedAfter("choice_user", "choice_computer"))'
        /\ (Printed("first_user") => first \in {"user", ""})'
        /\ (Printed("first_computer") => first \in {"computer", ""})' ]_vars

\* The computer selected first and the user has selected second.
C9_Witness ==
    /\ Printed("first_computer")
    /\ Printed("choice_user")
    /\ pc = "user_enter"

\* C10: the user is announced winner iff the user's face is greater, the
\* computer iff its face is greater, a tie iff they are equal; a completed
\* round announces exactly one result, as its last line, and play has
\* returned to the menu with no roll pending; faces (4, 6) give the computer,
\* (9, 1) the user and (4, 4) a tie.
C10_WinnerDetermination ==
    /\ \A a \in announced :
          /\ a.outcome = "user_wins" <=> a.user_roll > a.computer_roll
          /\ a.outcome = "computer_wins" <=> a.computer_roll > a.user_roll
          /\ a.outcome = "tie" <=> a.user_roll = a.computer_roll
          /\ out[Len(out)] = a.outcome
          /\ pc \in {"menu", "exited"}
          /\ com = {} /\ published = {}
    /\ Cardinality({i \in 1..Len(out) : out[i] \in Outcomes})
          = (IF announced = {} THEN 0 ELSE 1)
    /\ (Printed("throw_user") /\ Printed("throw_computer")) => announced # {}
    /\ determine_winner(4, 6) = "computer_wins"
    /\ determine_winner(9, 1) = "user_wins"
    /\ determine_winner(4, 4) = "tie"

\* A round has ended in a tie on faces 4 and 4.
C10_Witness ==
    announced = {[outcome |-> "tie", user_roll |-> 4, computer_roll |-> 4]}


(***************************************************************************)
(* Claims on the probability functions (SpecFn).                           *)
(***************************************************************************)
\* The ordered face pairs of two dice, by position.
FacePairs(a, b) == (1..Len(a)) \X (1..Len(b))

Greater(a, b) == Cardinality({ij \in FacePairs(a, b) : a[ij[1]] > b[ij[2]]})

Tied(a, b) == Cardinality({ij \in FacePairs(a, b) : a[ij[1]] = b[ij[2]]})

\* C11: for two 6-face dice a and b, calculate_win_probability(a, b) is the
\* number of ordered face pairs with fa > fb over 36; it lies in [0, 1]; and
\* with calculate_win_probability(b, a) it sums to 1 - ties/36, which is
\* below 1 exactly when some face pair is tied.
C11_WinProbability ==
    fn_pc = "probability" =>
        \A p \in fn_prob :
            LET a == fn_dice[1]
                b == fn_dice[2]
                q == calculate_win_probability(b, a)
            IN /\ p.total = 36
               /\ p.wins = Greater(a, b)
               /\ 0 <= p.wins /\ p.wins <= p.total
               /\ q.total = 36
               /\ p.wins + q.wins = 36 - Tied(a, b)
               /\ (p.wins + q.wins < 36) <=> (Tied(a, b) > 0)

\* A call on two dice with tied pairs, won by the first in some pairs.
C11_Witness ==
    /\ fn_pc = "probability"
    /\ Tied(fn_dice[1], fn_dice[2]) > 0
    /\ \E p \in fn_prob : p.wins > 0 /\ p.wins < 36

\* C12: the dice A = [2,2,4,4,9,9], B = [1,1,6,6,8,8], C = [3,3,5,5,7,7] form
\* a non-transitive cycle: calculate_win_probability(A, B), (B, C) and (C, A)
\* are each above 1/2.
C12_NonTransitiveCycle ==
    /\ fn_pc = "probability"
    /\ fn_dice \in {<<Die_A, Die_B>>, <<Die_B, Die_C>>, <<Die_C, Die_A>>}
    => \A p \in fn_prob : 2 * p.wins > p.total

\* The call that closes the cycle: C against A, won in 20 pairs of 36.
C12_Witness ==
    /\ fn_pc = "probability"
    /\ fn_dice = <<Die_C, Die_A>>
    /\ fn_prob = {[wins |-> 20, total |-> 36]}

\* C13: in the table built for a dice list, every cell (i, j) whose two dice
\* have the same six faces shows the fixed value 0.3333, on the diagonal and
\* for two different positions given the same faces alike; every other cell
\* shows calculate_win_probability(die i, die j).
C13_IdenticalConfiguration ==
    fn_pc = "table" =>
        \A i \in 1..Len(fn_dice), j \in 1..Len(fn_dice) :
            IF fn_dice[i] = fn_dice[j]
            THEN fn_table[i][j].shown = 3333
            ELSE fn_table[i][j] =
                     [dash |-> FALSE,
                      shown |-> Format4(calculate_win_probability(fn_dice[i],
                                                                  fn_dice[j]))]

\* C14 as stated: for every 6-face die A, calculate_win_probability(A, A)
\* leaves the tied pairs out of the numerator and equals 1/3, the value of
\* the diagonal convention.
C14_SelfProbabilityIsOneThird ==
    fn_pc = "probability" /\ fn_dice[1] = fn_dice[2] =>
        \A p \in fn_prob :
            /\ p.wins = Greater(fn_dice[1], fn_dice[1])
            /\ 3 * p.wins = p.total

\* C14, amended: for every 6-face die A, calculate_win_probability(A, A)
\* leaves the tied pairs out of the numerator and equals (36 - ties)/72, at
\* most 15/36; it is 1/3 only for a die with exactly 12 tied pairs. The fixed
\* 0.3333 is what display_help_table writes in the diagonal cells, whatever
\* the die.
C14_SelfProbability ==
    /\ fn_pc = "probability" /\ fn_dice[1] = fn_dice[2] =>
           \A p \in fn_prob :
               LET ties == Tied(fn_dice[1], fn_dice[1]) IN
               /\ p.wins = Greater(fn_dice[1], fn_dice[1])
               /\ p.total = 36
               /\ 2 * p.wins = 36 - ties
               /\ p.wins <= 15
               /\ (3 * p.wins = p.total) <=> (ties = 12)
    /\ fn_pc = "table" =>
           \A i \in 1..Len(fn_dice) :
               fn_table[i][i] = [dash |-> TRUE, shown |-> 3333]

\* The die 1..6 against itself: 6 tied pairs, 15 pairs won of 36.
C14_Witness ==
    /\ fn_pc = "probability"
    /\ fn_dice = <<Die_S, Die_S>>
    /\ fn_prob = {[wins |-> 15, total |-> 36]}


(***************************************************************************)
(* Claims on the errors of the engine and of the configuration.            *)
(***************************************************************************)
\* C15: a call generate_random_value(range_start, range_end) with
\* range_end < range_start (range_end = range_start - 1 included) fails: it
\* raises, returns no value and no commitment, and draws no number, as it
\* would if the bounds were taken in the other order.
C15_EmptyRangeFails ==
    (fn_call # <<>> /\ fn_call[2] < fn_call[1]) =>
        /\ fn_pc = "raised"
        /\ fn_ret = {}
        /\ RandomNumbers(fn_call[1], fn_call[2]) = {}

\* The call with range_end = range_start - 1, where secrets.randbelow is given
\* 0, has raised.
C15_Witness ==
    /\ fn_pc = "raised"
    /\ fn_call[2] = fn_call[1] - 1
    /\ fn_ret = {}

\* The number of comma-separated fields of an argument.
FieldCount(arg) == Cardinality({i \in 1..Len(arg) : arg[i] = ","}) + 1

\* A field that spells an integer: blanks, an optional sign, digits, blanks.
IntegerText(f) ==
    \E lo \in 1..Len(f), hi \in 1..Len(f) :
        /\ lo <= hi
        /\ \A i \in 1..Len(f) : (i < lo \/ i > hi) => f[i] = " "
        /\ LET digits == IF f[lo] \in {"+", "-"}
                         THEN SubSeq(f, lo + 1, hi)
                         ELSE SubSeq(f, lo, hi)
           IN /\ digits # <<>>
              /\ \A k \in 1..Len(digits) : IsDigit(digits[k])

ValidConfiguration(args) ==
    /\ Len(args) >= 3
    /\ \A i \in 1..Len(args) :
         /\ FieldCount(args[i]) = 6
         /\ \A k \in 1..Len(Split(args[i])) : IntegerText(Split(args[i])[k])

\* C16: a Game exists, and a round is played, only on a dice list of at least
\* 3 dice with exactly 6 integer faces each. A command line with fewer than 3
\* configurations, with a configuration of another face count, or with a
\* face that is no integer ends the process with a reported error and exit
\* status 1, before any menu prompt and any round, with no Game constructed.
C16_ConfigurationValidity ==
    /\ argv = {} => pc = "start" /\ dice_list = <<>> /\ rounds = 0
    /\ \A args \in argv :
         IF ValidConfiguration(args)
         THEN /\ Len(dice_list) = Len(args)
              /\ Len(dice_list) >= 3
              /\ \A i \in 1..Len(dice_list) :
                   /\ Len(dice_list[i]) = 6
                   /\ \A k \in 1..6 : dice_list[i][k] \in Int
         ELSE /\ pc = "exited"
              /\ exit_status = {1}
              /\ last_msg \in
                   {"Error: You must provide at least 3 dice configurations.",
                    "An error occurred"}
              /\ dice_list = <<>>
              /\ rounds = 0
              /\ out = <<>>
              /\ user_input = {}

\* A command line of three configurations, one with a face "q", has ended
\* the process with status 1.
C16_Witness ==
    /\ argv = {<<Arg_A, Arg_NotInt, Arg_C>>}
    /\ pc = "exited"
    /\ exit_status = {1}
    /\ last_msg = "An error occurred"


(***************************************************************************)
(* Claims about verification, turns and rounds.                            *)
(***************************************************************************)
\* The number of printed protocol lines that are in a set of lines.
Count(tags) == Len(SelectSeq(out, LAMBDA t : t \in tags))

\* The lines that tell how the verification of a reveal ended.
CheckLines(kind) ==
    IF kind = "first" THEN {"first_user", "first_computer", "warning_first"}
    ELSE IF kind = "user" THEN {"throw_user", "warning_user"}
    ELSE {"throw_computer", "warning_computer"}

Checks(kind) == Count(CheckLines(kind))

\* The pending commitment opens with the locals it was created with.
PendingVerifies ==
    \E c \in com : verify_commitment(c.value, c.nonce, c.key, c.commitment)

\* Within a round each commitment is checked once, when it is revealed, and
\* no commitment is revealed twice.
C17_VerifiedOnce ==
    \A kind \in {"first", "user", "computer"} :
        LET reveals == Count({"reveal_" \o kind})
            digests == Count({"digest_" \o kind})
        IN /\ Checks(kind) = reveals
           /\ reveals <= digests
           /\ digests <= 1
           /\ pc = "menu" => reveals = digests

\* C17: a committed value is used only after its own commitment verified,
\* and each commitment is verified once: the step that decides who moves
\* first is taken on a first-mover commitment that verifies, a turn whose
\* roll commitment does not verify returns -1 and no face, and every
\* commitment revealed in a round has exactly one verification.
C17_VerifiedBeforeUse ==
    /\ []C17_VerifiedOnce
    /\ [][ /\ (first' # first /\ first' # "") => PendingVerifies
           /\ (pc = "user_enter" /\ pc' # "user_enter" /\ ~PendingVerifies) =>
                 /\ (IF first = "user" THEN user_roll'
                     ELSE {a.user_roll : a \in announced'}) = {-1}
                 /\ out'[Len(out) + 2] = "warning_user"
           /\ (pc = "computer_enter" /\ pc' # "computer_enter"
                                     /\ ~PendingVerifies) =>
                 /\ (IF first = "computer" THEN computer_roll'
                     ELSE {a.computer_roll : a \in announced'}) = {-1}
                 /\ out'[Len(out) + 2] = "warning_computer" ]_vars

\* A round in which all three commitments verified and were used.
C17_Witness ==
    /\ pc = "menu"
    /\ Printed("first_computer")
    /\ Printed("throw_user")
    /\ Printed("throw_computer")
    /\ Checks("first") = 1 /\ Checks("user") = 1 /\ Checks("computer") = 1


\* What user_turn, or computer_turn, has returned in the step just taken:
\* play keeps it in user_roll (computer_roll) when the other turn is still to
\* come, and hands it to determine_winner otherwise.
UserTurnReturned ==
    IF first = "user" THEN user_roll' ELSE {a.user_roll : a \in announced'}

ComputerTurnReturned ==
    IF first = "computer" THEN computer_roll'
    ELSE {a.computer_roll : a \in announced'}

\* The roll is a position of the selected die, and the selected die is a die
\* of the list.
RollIndexesSelected(c, d) ==
    /\ c.value \in 0..5
    /\ d \in 0..(Len(dice_list) - 1)
    /\ Len(dice_list[d + 1]) = 6

\* C18: in every turn whose roll commitment verifies, the roll is in 0..5
\* and the turn returns the face at that 0-based position of the die selected
\* in that turn, which is the die claimed in used_dice_index; no step after
\* the Game is constructed changes the dice list or a face.
C18_RollIndexesSelectedDie ==
    [][ /\ (pc = "user_enter" /\ pc' # "user_enter" /\ PendingVerifies) =>
              \E c \in com, d \in selected :
                  /\ RollIndexesSelected(c, d)
                  /\ UserTurnReturned = {dice_list[d + 1][c.value + 1]}
        /\ (pc = "computer_enter" /\ pc' # "computer_enter" /\ PendingVerifies) =>
              \E c \in com, d \in selected :
                  /\ RollIndexesSelected(c, d)
                  /\ ComputerTurnReturned = {dice_list[d + 1][c.value + 1]}
        /\ (pc' \in {"user_enter", "computer_enter"} /\ pc' # pc) =>
              /\ Cardinality(selected') = 1
              /\ selected' = used_dice_index'
        /\ pc # "start" => dice_list' = dice_list ]_vars

\* The user has thrown first, and the face under the roll is kept for
\* determine_winner while the computer's turn is on.
C18_Witness ==
    /\ pc = "computer_enter"
    /\ first = "user"
    /\ out[Len(out) - 2] = "throw_user"
    /\ \E d \in 1..Len(dice_list), k \in 1..6 : user_roll = {dice_list[d][k]}


\* The indices of the dice.
DiceIndices == 0..(Len(dice_list) - 1)

\* The user, at the die prompt, can select the die of index i.
UserCanSelect(i) == ENABLED (selected' = {i} /\ ChoiceAccepted)

\* What the turns of a round may select, whatever an earlier round claimed.
C19_Selectable ==
    \* The computer, moving first, can draw any die.
    /\ pc = "guess" =>
          \A i \in DiceIndices :
              ENABLED (first' = "computer" /\ selected' = {i} /\ GuessAccepted)
    \* The user, moving first, can select any die.
    /\ (pc = "user_choice" /\ first = "user") =>
          /\ exclude = {}
          /\ \A i \in DiceIndices : UserCanSelect(i)
    \* The user, moving second, is refused the computer's die and no other.
    /\ (pc = "user_choice" /\ first = "computer") =>
          /\ exclude = used_dice_index /\ Cardinality(exclude) = 1
          /\ \A i \in DiceIndices : UserCanSelect(i) <=> i \notin exclude
    \* The computer, moving second, can draw any die but the user's.
    /\ (pc = "user_enter" /\ first = "user") =>
          /\ selected = used_dice_index /\ Cardinality(selected) = 1
          /\ \A i \in DiceIndices :
                 ENABLED (selected' = {i} /\ UserEnter) <=> i \notin selected

\* C19: used_dice_index keeps its value from one round to the next, and
\* restricts nothing there: in every round the party that chooses first can
\* select every index of the dice list, the one claimed last in the round
\* before included, and the party that chooses second is refused only the
\* index the first chooser claimed in the current round.
C19_EarlierRoundDoesNotRestrict ==
    /\ []C19_Selectable
    /\ [][ /\ ((pc = "menu" \/ pc' = "menu") /\ pc # "start") =>
                 used_dice_index' = used_dice_index
           /\ (pc = "guess" /\ pc' = "user_choice") => exclude' = {}
           /\ (pc = "guess" /\ pc' = "computer_enter") => exclude' = {} ]_vars

\* The second round, the user to choose first: used_dice_index still holds
\* the die claimed last in the first round, and the user can select it.
C19_Witness ==
    /\ rounds = 2
    /\ pc = "user_choice"
    /\ first = "user"
    /\ used_dice_index = {0}
    /\ UserCanSelect(0)


(***************************************************************************)
(* Termination of a round (SpecAnswered).                                  *)
(***************************************************************************)
\* play has returned to the menu loop, or the process has ended.
RoundOver == pc \in {"menu", "exited"}

\* Some line the prompt accepts can be typed.
CanAnswer == ENABLED (GuessAccepted \/ ChoiceAccepted \/ UserEnter \/ ComputerEnter)

\* How a round can have ended: with the result line, with the warning on the
\* first mover's commitment, or with the process ended by "x".
C20_Ended ==
    /\ (pc = "menu" /\ rounds > 0) =>
          \/ /\ announced # {}
             /\ out[Len(out)] \in Outcomes
          \/ /\ announced = {}
             /\ out[Len(out)] = "warning_first"
    /\ (pc = "exited" /\ rounds > 0) =>
          /\ exit_status = {0}
          /\ last_msg = "Thanks for playing!"

\* C20: a round that has started, played by a user who in the end gives
\* every prompt a line it accepts, ends: with the result line or with the
\* warning on the first mover's commitment. Every prompt has a line it
\* accepts; a line a prompt does not accept ("?" or an invalid one) leaves
\* the process at the same prompt with nothing else changed, and only "x"
\* ends the process in a round.
C20_RoundTerminates ==
    /\ InRound ~> RoundOver
    /\ [](InRound => CanAnswer)
    /\ []C20_Ended
    /\ [][ /\ (InRound /\ user_input' # {} /\ pc' # "exited"
                       /\ ~ValueReplaced) =>
                 /\ pc' = pc
                 /\ UNCHANGED <<procvars, user_guess, first, exclude, selected,
                                com, user_roll, computer_roll, published, out,
                                announced>>
           /\ (InRound /\ pc' = "exited") =>
                 /\ user_input' = {<<"x">>}
                 /\ pc \in {"guess", "user_choice"} ]_vars

\* The second round of a run has ended with its result line.
C20_Witness ==
    /\ rounds = 2
    /\ pc = "menu"
    /\ announced # {}
    /\ out[Len(out)] \in Outcomes
====
